---- MODULE Spec2Model ----
(***************************************************************************)
(* Model of the input event-stream verifier                                *)
(* (libs/input/rust/input_verifier.rs).                                    *)
(*                                                                         *)
(* The verifier owns three maps keyed by device id: the touching pointer   *)
(* ids, the hovering pointer ids and one ButtonVerifier per device.  A     *)
(* caller submits one call at a time (process_movement or reset_device);   *)
(* the call is processed in one atomic step and its result handed back.    *)
(* The verifier's name and should_log only feed the log line and the text  *)
(* of the diagnostics; they are left out.                                  *)
(***************************************************************************)
EXTENDS Integers, Sequences, FiniteSets, TLC

(***************************************************************************)
(* Bounds of the model.                                                    *)
(***************************************************************************)
NumDevices == 2
NumCallers == 1
MaxPointerId == 1
MaxPointers == 2

\* The device ids the verifier can hold, and those of them whose events the
\* callers of Spec submit.
Devices == 1..NumDevices
CallerDevices == 1..NumCallers
PointerIds == 0..MaxPointerId

(***************************************************************************)
(* Input domains.  A MotionButton / MotionFlags value is a bit set; it is  *)
(* modelled as the set of the names of its bits.                           *)
(***************************************************************************)
Buttons == {"Primary", "Secondary"}
MotionButton == SUBSET Buttons
MotionFlags == SUBSET {"CANCELED"}
Sources == {"Touchscreen", "MouseRelative"}

\* Source::is_from_class: the class bits of the source.
SourceClassOf(source) ==
    CASE source = "Touchscreen" -> "Pointer"
      [] source = "MouseRelative" -> "Navigation"
      [] OTHER -> "None"

is_from_class(source, class) == SourceClassOf(source) = class

\* bitflags: a.contains(b) holds when every bit of b is set in a.
contains(a, b) == b \subseteq a

(***************************************************************************)
(* Packed action codes and their decoding (MotionAction::from).            *)
(***************************************************************************)
ACTION_MASK == 255
POINTER_INDEX_SHIFT == 8
MaxActionKind == 13

KindName(kind) ==
    CASE kind = 0 -> "Down"
      [] kind = 1 -> "Up"
      [] kind = 2 -> "Move"
      [] kind = 3 -> "Cancel"
      [] kind = 4 -> "Outside"
      [] kind = 5 -> "PointerDown"
      [] kind = 6 -> "PointerUp"
      [] kind = 7 -> "HoverMove"
      [] kind = 8 -> "Scroll"
      [] kind = 9 -> "HoverEnter"
      [] kind = 10 -> "HoverExit"
      [] kind = 11 -> "ButtonPress"
      [] kind = 12 -> "ButtonRelease"
      [] OTHER -> "Unknown"

IsIndexed(name) == name \in {"PointerDown", "PointerUp"}

\* The decoded action: its kind and, for PointerDown / PointerUp, the
\* pointer index held above POINTER_INDEX_SHIFT (0 for every other kind).
MotionAction_from(action) ==
    LET name == KindName(action % (ACTION_MASK + 1))
        index == (action \div (2 ^ POINTER_INDEX_SHIFT)) % (ACTION_MASK + 1)
    IN  [kind |-> name, action_index |-> IF IsIndexed(name) THEN index ELSE 0]

\* The packed codes submitted by the callers of the model: every kind
\* (MaxActionKind is a code of no known kind), and for PointerDown and
\* PointerUp every index up to MaxPointers, one past the last descriptor.
ActionCodes ==
    (0..MaxActionKind)
        \cup {k + i * (2 ^ POINTER_INDEX_SHIFT) : k \in {5, 6}, i \in 1..MaxPointers}

\* The descriptor sequences: 0..MaxPointers descriptors, each with an id.
RustPointerProperties == [id : PointerIds]

PointerSeqs ==
    UNION {[1..n -> RustPointerProperties] : n \in 0..MaxPointers}

(***************************************************************************)
(* Results.  Ok, or a tag naming the diagnostic that is returned.          *)
(***************************************************************************)
Ok == "Ok"

IsErr(r) == r # Ok

(***************************************************************************)
(* verify_event: the checks on one event by itself.                        *)
(***************************************************************************)
SinglePointerKinds == {"Down", "HoverEnter", "HoverExit", "HoverMove", "Up"}

\* pointer_count_invalid that lets any number of pointers through.
pointer_count_invalid_never(pointer_count) == FALSE

\* The check of the pointer count of a single-pointer action.
pointer_count_invalid(pointer_count) == pointer_count # 1

\* not_canceled that never misses the flag.
not_canceled_never(flags) == FALSE

\* The check of the flags of a CANCEL.
not_canceled(flags) == ~ contains(flags, {"CANCELED"})

\* button_count_invalid that only wants some action button.
button_count_invalid_zero(action_button) == Cardinality(action_button) = 0

\* The check of the number of action buttons of a BUTTON_PRESS or
\* BUTTON_RELEASE.
button_count_invalid(action_button) == Cardinality(action_button) # 1

\* action_index_invalid that is off by one: an index equal to the pointer
\* count goes through.
action_index_invalid_off_by_one(action, pointer_count) ==
    action.action_index > pointer_count

\* The check of the index of a POINTER_DOWN or POINTER_UP.
action_index_invalid(action, pointer_count) ==
    action.action_index >= pointer_count

verify_event(action, action_button, pointer_properties, flags) ==
    LET pointer_count == Len(pointer_properties)
    IN  IF pointer_count < 1 THEN "Err:NoPointers"
        ELSE IF /\ action_button # {}
                /\ action.kind # "ButtonPress"
                /\ action.kind # "ButtonRelease"
             THEN "Err:ActionButtonOnNonButtonAction"
        ELSE IF action.kind \in SinglePointerKinds
             THEN IF pointer_count_invalid(pointer_count)
                  THEN "Err:PointerCount"
                  ELSE Ok
        ELSE IF action.kind = "Cancel"
             THEN IF not_canceled(flags) THEN "Err:NotCanceled" ELSE Ok
        ELSE IF action.kind \in {"PointerDown", "PointerUp"}
             THEN IF action_index_invalid(action, pointer_count)
                  THEN "Err:ActionIndex"
                  ELSE Ok
        ELSE IF action.kind \in {"ButtonPress", "ButtonRelease"}
             THEN IF button_count_invalid(action_button)
                  THEN "Err:ActionButtonCount"
                  ELSE Ok
        ELSE Ok

(***************************************************************************)
(* ButtonVerifier.  process_action takes the verifier `self` and returns   *)
(* the result together with the verifier as the call leaves it: the        *)
(* assignments made before an early return stay made.                      *)
(***************************************************************************)
ButtonVerifier_default == [button_state |-> {}, pending_buttons |-> {}]

\* pending_step without the check: nothing is an error while buttons are
\* pending.
pending_step_unchecked(self, action, action_button) ==
    [result |-> Ok,
     self |-> [self EXCEPT !.pending_buttons = @ \ action_button]]

\* The check of the pending buttons: with buttons pending, anything but a
\* BUTTON_PRESS of pending buttons is an error; otherwise the action button
\* stops being pending.
pending_step(self, action, action_button) ==
    IF self.pending_buttons # {}
    THEN IF \/ action.kind # "ButtonPress"
            \/ ~ contains(self.pending_buttons, action_button)
         THEN [result |-> "Err:ExpectedButtonPress", self |-> self]
         ELSE [result |-> Ok,
               self |-> [self EXCEPT !.pending_buttons = @ \ action_button]]
    ELSE [result |-> Ok, self |-> self]

\* down_missing that misses nothing: a DOWN may drop held buttons.
down_missing_none(self, button_state) == {}

\* The buttons of the current state which the state of a DOWN lacks.
down_missing(self, button_state) == self.button_state \ button_state

\* down_pending that forgets the held buttons: every declared button of a
\* DOWN becomes pending.
down_pending_all(self, button_state) == button_state

\* The buttons a DOWN leaves pending: the declared ones that are not held.
down_pending(self, button_state) == button_state \ self.button_state

\* press_expected that forgets the held buttons.
press_expected_only(self, action_button) == action_button

\* The state expected of a BUTTON_PRESS.
press_expected(self, action_button) == self.button_state \cup action_button

\* release_expected that keeps the released button.
release_expected_keep(self, action_button) == self.button_state

\* The state expected of a BUTTON_RELEASE.
release_expected(self, action_button) == self.button_state \ action_button

\* The match on the action: the expected button state, or an error.
expected_state(self, action, action_button, button_state) ==
    CASE action.kind = "Down" ->
            IF down_missing(self, button_state) # {}
            THEN [result |-> "Err:DownMissingButtons", self |-> self,
                  expected |-> {}]
            ELSE [result |-> Ok,
                  self |-> [self EXCEPT
                              !.pending_buttons = down_pending(self, button_state)],
                  expected |-> button_state]
      [] action.kind = "ButtonPress" ->
            IF contains(self.button_state, action_button)
            THEN [result |-> "Err:DuplicateButtonPress", self |-> self,
                  expected |-> {}]
            ELSE [result |-> Ok, self |-> self,
                  expected |-> press_expected(self, action_button)]
      [] action.kind = "ButtonRelease" ->
            IF ~ contains(self.button_state, action_button)
            THEN [result |-> "Err:InvalidButtonRelease", self |-> self,
                  expected |-> {}]
            ELSE [result |-> Ok, self |-> self,
                  expected |-> release_expected(self, action_button)]
      [] OTHER ->
            [result |-> Ok, self |-> self, expected |-> self.button_state]

\* commit_state that also commits the declared state of a DOWN.
commit_state_always(self, action, button_state) ==
    [self EXCEPT !.button_state = button_state]

\* The update of the button state at the end of process_action.
commit_state(self, action, button_state) ==
    IF action.kind # "Down"
    THEN [self EXCEPT !.button_state = button_state]
    ELSE self

\* state_mismatch that never reports a mismatch.
state_mismatch_never(button_state, expected) == FALSE

\* The check of the declared button state against the expected one.
state_mismatch(button_state, expected) == button_state # expected

process_action(self, action, action_button, button_state) ==
    LET p == pending_step(self, action, action_button)
    IN  IF IsErr(p.result) THEN p
        ELSE LET e == expected_state(p.self, action, action_button, button_state)
             IN  IF IsErr(e.result)
                 THEN [result |-> e.result, self |-> e.self]
                 ELSE IF state_mismatch(button_state, e.expected)
                 THEN [result |-> "Err:UnexpectedButtonState", self |-> e.self]
                 ELSE [result |-> Ok,
                       self |-> commit_state(e.self, action, button_state)]

(***************************************************************************)
(* HashMap<DeviceId, V>: a function whose domain is the set of keys.       *)
(***************************************************************************)
EmptyMap == [d \in {} |-> {}]

contains_key(map, key) == key \in DOMAIN map

insert(map, key, value) ==
    [k \in DOMAIN map \cup {key} |-> IF k = key THEN value ELSE map[k]]

remove(map, key) == [k \in DOMAIN map \ {key} |-> map[k]]

\* map.entry(key).or_default(): the map with the key present.
entry_or_default(map, key, default) ==
    IF contains_key(map, key) THEN map ELSE insert(map, key, default)

(***************************************************************************)
(* InputVerifier.  `self` is the record of the verifier's three maps; an   *)
(* operation returns its result and the verifier as the call leaves it.    *)
(***************************************************************************)
InputVerifier_new ==
    [touching_pointer_ids_by_device |-> EmptyMap,
     hovering_pointer_ids_by_device |-> EmptyMap,
     button_verifier_by_device |-> EmptyMap]

ensure_touching_pointers_match(self, device_id, pointer_properties) ==
    IF ~ contains_key(self.touching_pointer_ids_by_device, device_id) THEN FALSE
    ELSE LET pointers == self.touching_pointer_ids_by_device[device_id]
         IN  IF Cardinality(pointers) # Len(pointer_properties) THEN FALSE
             ELSE \A i \in 1..Len(pointer_properties) :
                      pointer_properties[i].id \in pointers

\* pointer_properties[index] of the source, whose indices start at 0.  An
\* index outside the sequence is a panic.
InBounds(pointer_properties, index) == index < Len(pointer_properties)

Touching(self, touching) == [self EXCEPT !.touching_pointer_ids_by_device = touching]

Hovering(self, hovering) == [self EXCEPT !.hovering_pointer_ids_by_device = hovering]

Panic == "Panic"

\* down_step that takes an empty touching set for no gesture.
down_step_unless_pointers(self, device_id, pointer_properties) ==
    LET touching == self.touching_pointer_ids_by_device
    IN  IF contains_key(touching, device_id) /\ touching[device_id] # {}
        THEN [result |-> "Err:PointersAlreadyDown", self |-> self]
        ELSE IF ~ InBounds(pointer_properties, 0)
        THEN [result |-> Panic, self |-> self]
        ELSE [result |-> Ok,
              self |-> Touching(self,
                         insert(touching, device_id, {pointer_properties[1].id}))]

\* The branch of a DOWN: the first pointer goes down and a gesture starts.
down_step(self, device_id, pointer_properties) ==
    LET touching == self.touching_pointer_ids_by_device
    IN  IF contains_key(touching, device_id)
        THEN [result |-> "Err:PointersAlreadyDown", self |-> self]
        ELSE IF ~ InBounds(pointer_properties, 0)
        THEN [result |-> Panic, self |-> self]
        ELSE [result |-> Ok,
              self |-> Touching(self,
                         insert(touching, device_id, {pointer_properties[1].id}))]

\* hover_enter_step without the check that no pointer is hovering.
hover_enter_step_unchecked(self, device_id, pointer_properties) ==
    LET hovering == self.hovering_pointer_ids_by_device
    IN  IF ~ InBounds(pointer_properties, 0)
        THEN [result |-> Panic, self |-> self]
        ELSE [result |-> Ok,
              self |-> Hovering(self,
                         insert(hovering, device_id, {pointer_properties[1].id}))]

\* The branch of a HOVER_ENTER.
hover_enter_step(self, device_id, pointer_properties) ==
    LET hovering == self.hovering_pointer_ids_by_device
    IN  IF contains_key(hovering, device_id)
        THEN [result |-> "Err:AlreadyHovering", self |-> self]
        ELSE IF ~ InBounds(pointer_properties, 0)
        THEN [result |-> Panic, self |-> self]
        ELSE [result |-> Ok,
              self |-> Hovering(self,
                         insert(hovering, device_id, {pointer_properties[1].id}))]

\* hover_exit_step that ends the hovering whatever pointer remains.
hover_exit_step_any(self, device_id, pointer_properties) ==
    LET hovering == self.hovering_pointer_ids_by_device
    IN  IF ~ contains_key(hovering, device_id)
        THEN [result |-> "Err:NotHovering", self |-> self]
        ELSE IF ~ InBounds(pointer_properties, 0)
        THEN [result |-> Panic, self |-> self]
        ELSE [result |-> Ok, self |-> Hovering(self, remove(hovering, device_id))]

\* The branch of a HOVER_EXIT: the pointer is removed from the hovering
\* set, and only then is a set that is still not empty an error.
hover_exit_step(self, device_id, pointer_properties) ==
    LET hovering == self.hovering_pointer_ids_by_device
    IN  IF ~ contains_key(hovering, device_id)
        THEN [result |-> "Err:NotHovering", self |-> self]
        ELSE IF ~ InBounds(pointer_properties, 0)
        THEN [result |-> Panic, self |-> self]
        ELSE LET it == hovering[device_id] \ {pointer_properties[1].id}
             IN  IF it # {}
                 THEN [result |-> "Err:StillHovering",
                       self |-> Hovering(self, insert(hovering, device_id, it))]
                 ELSE [result |-> Ok,
                       self |-> Hovering(self, remove(hovering, device_id))]

\* up_step without the check that exactly one pointer is down.
up_step_any_count(self, device_id, pointer_properties) ==
    LET touching == self.touching_pointer_ids_by_device
    IN  IF ~ contains_key(touching, device_id)
        THEN [result |-> "Err:UpNoPointersDown", self |-> self]
        ELSE IF ~ InBounds(pointer_properties, 0)
        THEN [result |-> Panic, self |-> self]
        ELSE IF pointer_properties[1].id \notin touching[device_id]
        THEN [result |-> "Err:UpPointerNotTouching", self |-> self]
        ELSE [result |-> Ok, self |-> Touching(self, remove(touching, device_id))]

\* The branch of an UP: the last pointer goes up and the gesture ends.
up_step(self, device_id, pointer_properties) ==
    LET touching == self.touching_pointer_ids_by_device
    IN  IF ~ contains_key(touching, device_id)
        THEN [result |-> "Err:UpNoPointersDown", self |-> self]
        ELSE IF Cardinality(touching[device_id]) # 1
        THEN [result |-> "Err:UpPointerCount", self |-> self]
        ELSE IF ~ InBounds(pointer_properties, 0)
        THEN [result |-> Panic, self |-> self]
        ELSE IF pointer_properties[1].id \notin touching[device_id]
        THEN [result |-> "Err:UpPointerNotTouching", self |-> self]
        ELSE [result |-> Ok, self |-> Touching(self, remove(touching, device_id))]

\* The match on the action in process_movement: the step of the touching and
\* hovering pointers.
\* PointerDown that never compares the touching count with the descriptors.
pointer_down_count_mismatch_never(it, len) ==
    FALSE

\* PointerDown: the touching set must hold one pointer fewer than the event.
pointer_down_count_mismatch(it, len) ==
    Cardinality(it) # len - 1

\* PointerUp that leaves the lifted pointer in the touching set.
pointer_up_remaining_all(it, pointer_id) ==
    it

\* PointerUp: it.remove(&pointer_id).
pointer_up_remaining(it, pointer_id) ==
    it \ {pointer_id}

\* HoverMove that replaces the hovering set by the one pointer.
hover_move_ids_replaced(it, pointer_id) ==
    {pointer_id}

\* HoverMove: it.insert(pointer_properties[0].id) on the entry-or-default set.
hover_move_ids(it, pointer_id) ==
    it \cup {pointer_id}

pointer_step(self, device_id, action, pointer_properties) ==
    LET touching == self.touching_pointer_ids_by_device
        hovering == self.hovering_pointer_ids_by_device
        len == Len(pointer_properties)
    IN  CASE action.kind = "Down" -> down_step(self, device_id, pointer_properties)
          [] action.kind = "PointerDown" ->
                IF ~ contains_key(touching, device_id)
                THEN [result |-> "Err:NoPointersDown", self |-> self]
                ELSE IF len < 1
                THEN [result |-> Panic, self |-> self]
                ELSE IF pointer_down_count_mismatch(touching[device_id], len)
                THEN [result |-> "Err:PointerCountMismatch", self |-> self]
                ELSE IF ~ InBounds(pointer_properties, action.action_index)
                THEN [result |-> Panic, self |-> self]
                ELSE LET pointer_id == pointer_properties[action.action_index + 1].id
                     IN  IF pointer_id \in touching[device_id]
                         THEN [result |-> "Err:PointerAlreadyPresent", self |-> self]
                         ELSE [result |-> Ok,
                               self |-> Touching(self,
                                          insert(touching, device_id,
                                                 touching[device_id] \cup {pointer_id}))]
          [] action.kind = "Move" ->
                IF ~ ensure_touching_pointers_match(self, device_id, pointer_properties)
                THEN [result |-> "Err:MovePointersDontMatch", self |-> self]
                ELSE [result |-> Ok, self |-> self]
          [] action.kind = "PointerUp" ->
                IF ~ ensure_touching_pointers_match(self, device_id, pointer_properties)
                THEN [result |-> "Err:PointerUpPointersDontMatch", self |-> self]
                ELSE IF ~ InBounds(pointer_properties, action.action_index)
                THEN [result |-> Panic, self |-> self]
                ELSE LET pointer_id == pointer_properties[action.action_index + 1].id
                     IN  [result |-> Ok,
                          self |-> Touching(self,
                                     insert(touching, device_id,
                                            pointer_up_remaining(touching[device_id],
                                                                 pointer_id)))]
          [] action.kind = "Up" -> up_step(self, device_id, pointer_properties)
          [] action.kind = "Cancel" ->
                IF ~ ensure_touching_pointers_match(self, device_id, pointer_properties)
                THEN [result |-> "Err:CancelPointersDontMatch", self |-> self]
                ELSE [result |-> Ok, self |-> Touching(self, remove(touching, device_id))]
          [] action.kind = "HoverEnter" ->
                hover_enter_step(self, device_id, pointer_properties)
          [] action.kind = "HoverMove" ->
                IF ~ InBounds(pointer_properties, 0)
                THEN [result |-> Panic, self |-> self]
                ELSE LET it == entry_or_default(hovering, device_id, {})[device_id]
                     IN  [result |-> Ok,
                          self |-> Hovering(self,
                                     insert(hovering, device_id,
                                            hover_move_ids(it, pointer_properties[1].id)))]
          [] action.kind = "HoverExit" ->
                hover_exit_step(self, device_id, pointer_properties)
          [] OTHER -> [result |-> Ok, self |-> self]

\* The step of the device's ButtonVerifier, created on first use.
button_step(self, device_id, action, action_button, button_state) ==
    LET verifiers == entry_or_default(self.button_verifier_by_device, device_id,
                                      ButtonVerifier_default)
        r == process_action(verifiers[device_id], action, action_button, button_state)
    IN  [result |-> r.result,
         self |-> [self EXCEPT
                     !.button_verifier_by_device = insert(verifiers, device_id, r.self)]]

\* process_movement for an event of a Pointer source: verify_event, then the
\* button step, then the pointer step, each returning early on an error.
verify_movement(self, device_id, action, action_button, pointer_properties, flags, button_state) ==
    LET v == verify_event(action, action_button, pointer_properties, flags)
    IN  IF IsErr(v) THEN [result |-> v, self |-> self]
        ELSE LET b == button_step(self, device_id, action, action_button, button_state)
             IN  IF IsErr(b.result) THEN b
                 ELSE pointer_step(b.self, device_id, action, pointer_properties)

\* process_movement without the test of the source class.
process_movement_any_source(self, device_id, source, action, action_button, pointer_properties, flags, button_state) ==
    verify_movement(self, device_id, MotionAction_from(action), action_button,
                    pointer_properties, flags, button_state)

process_movement(self, device_id, source, action, action_button, pointer_properties, flags, button_state) ==
    IF ~ is_from_class(source, "Pointer") THEN [result |-> Ok, self |-> self]
    ELSE verify_movement(self, device_id, MotionAction_from(action), action_button,
                         pointer_properties, flags, button_state)

\* reset_device that forgets the hovering pointers of the device.
reset_device_touching_only(self, device_id) ==
    [self EXCEPT
       !.touching_pointer_ids_by_device = remove(@, device_id)]

\* reset_device that clears the maps: the pointers of every device go.
reset_device_all(self, device_id) ==
    [self EXCEPT
       !.touching_pointer_ids_by_device = EmptyMap,
       !.hovering_pointer_ids_by_device = EmptyMap]

reset_device(self, device_id) ==
    [self EXCEPT
       !.touching_pointer_ids_by_device = remove(@, device_id),
       !.hovering_pointer_ids_by_device = remove(@, device_id)]

(***************************************************************************)
(* PersistableBundle: a mapping from string keys to values of various      *)
(* types.  A string is the sequence of its characters.  The bundle itself  *)
(* lives behind the APersistableBundle functions: a map from C strings to  *)
(* values tagged with their type.                                          *)
(***************************************************************************)
NUL == "NUL"

NulError == [error |-> "NulError"]

OkValue(v) == [ok |-> v]

Unit == "()"

Some(v) == <<v>>

None == << >>

HasNul(s) == \E i \in 1..Len(s) : s[i] = NUL

\* CString::new that cuts the string at its first NUL, as a C string ends.
CString_new_truncating(s) ==
    IF HasNul(s)
    THEN [ok |-> TRUE,
          value |-> SubSeq(s, 1, (CHOOSE i \in 1..Len(s) :
                                      /\ s[i] = NUL
                                      /\ \A j \in 1..(i - 1) : s[j] # NUL) - 1)]
    ELSE [ok |-> TRUE, value |-> s]

\* CString::new(s)?: an error for a string with a NUL character in it.
CString_new(s) ==
    IF HasNul(s) THEN [ok |-> FALSE, value |-> << >>] ELSE [ok |-> TRUE, value |-> s]

ScalarTypes == {"bool", "int", "long", "double"}

VecTypes == {"bool_vec", "int_vec", "long_vec", "double_vec"}

InsertTypes ==
    ScalarTypes \cup VecTypes \cup {"string", "string_vec", "persistable_bundle"}

GetTypes == ScalarTypes \cup VecTypes \cup {"persistable_bundle"}

\* size_of::<T>() of the elements of a vector, in bytes.
size_of(type) ==
    CASE type = "bool_vec" -> 1
      [] type = "int_vec" -> 4
      [] type = "long_vec" -> 8
      [] type = "double_vec" -> 8

\* T::default() of the elements of a vector.
default_of(type) == IF type = "bool_vec" THEN FALSE ELSE 0

APersistableBundle_new == EmptyMap

APersistableBundle_size(bundle) == Cardinality(DOMAIN bundle)

APersistableBundle_erase(bundle, key) ==
    [result |-> IF contains_key(bundle, key) THEN 1 ELSE 0,
     bundle |-> remove(bundle, key)]

\* APersistableBundle_putBoolean, _putInt, ...: the key gets the value,
\* whatever it had.
APersistableBundle_put(bundle, type, key, value) ==
    insert(bundle, key, [type |-> type, value |-> value])

\* APersistableBundle_getBoolean, _getInt, ...: whether the key has a value
\* of the type, and the value.
APersistableBundle_get(bundle, type, key) ==
    IF contains_key(bundle, key) /\ bundle[key].type = type
    THEN [found |-> TRUE, value |-> bundle[key].value]
    ELSE [found |-> FALSE, value |-> None]

APERSISTABLEBUNDLE_KEY_NOT_FOUND == -1

\* APersistableBundle_getBooleanVector, ...: the size in bytes which the
\* vector takes, and the vector written to a buffer of that size.
APersistableBundle_getVector(bundle, type, key, buffer_size) ==
    LET g == APersistableBundle_get(bundle, type, key)
    IN  IF ~ g.found
        THEN [size |-> APERSISTABLEBUNDLE_KEY_NOT_FOUND, written |-> << >>]
        ELSE LET required == Len(g.value) * size_of(type)
             IN  [size |-> required,
                  written |-> IF buffer_size >= required THEN g.value ELSE << >>]

PersistableBundle_new == APersistableBundle_new

PersistableBundle_size(self) == APersistableBundle_size(self)

\* remove that reports an entry where there was none to remove.
PersistableBundle_remove_inverted(self, key) ==
    LET c_key == CString_new(key)
    IN  IF ~ c_key.ok THEN [result |-> NulError, self |-> self]
        ELSE LET e == APersistableBundle_erase(self, c_key.value)
             IN  [result |-> OkValue(e.result = 0), self |-> e.bundle]

PersistableBundle_remove(self, key) ==
    LET c_key == CString_new(key)
    IN  IF ~ c_key.ok THEN [result |-> NulError, self |-> self]
        ELSE LET e == APersistableBundle_erase(self, c_key.value)
             IN  [result |-> OkValue(e.result # 0), self |-> e.bundle]

\* insert_bool ... insert_persistable_bundle: the key is converted first,
\* then the strings of the value, and the value is put.
PersistableBundle_insert(self, type, key, value) ==
    LET c_key == CString_new(key)
    IN  IF ~ c_key.ok THEN [result |-> NulError, self |-> self]
        ELSE IF type = "string" /\ ~ CString_new(value).ok
        THEN [result |-> NulError, self |-> self]
        ELSE IF type = "string_vec" /\ \E i \in 1..Len(value) : ~ CString_new(value[i]).ok
        THEN [result |-> NulError, self |-> self]
        ELSE [result |-> OkValue(Unit),
              self |-> APersistableBundle_put(self, type, c_key.value, value)]

\* element_count that takes the size in bytes for the number of elements.
element_count_bytes(required_buffer_size, type) == required_buffer_size

\* The number of T values in a buffer of the required size.
element_count(required_buffer_size, type) == required_buffer_size \div size_of(type)

\* get_vec: the size is asked for with no buffer, and the vector is read
\* into a buffer of that many default values.
get_vec(self, type, key) ==
    LET c_key == CString_new(key)
    IN  IF ~ c_key.ok THEN NulError
        ELSE LET probe == APersistableBundle_getVector(self, type, c_key.value, 0)
             IN  IF probe.size = APERSISTABLEBUNDLE_KEY_NOT_FOUND THEN OkValue(None)
                 ELSE LET len == element_count(probe.size, type)
                          fill == APersistableBundle_getVector(self, type, c_key.value,
                                                               len * size_of(type))
                          value == [i \in 1..len |->
                                      IF i <= Len(fill.written)
                                      THEN fill.written[i]
                                      ELSE default_of(type)]
                      IN  IF fill.size = APERSISTABLEBUNDLE_KEY_NOT_FOUND
                          THEN Panic
                          ELSE OkValue(Some(value))

\* get_bool ... get_persistable_bundle.
PersistableBundle_get(self, type, key) ==
    IF type \in VecTypes THEN get_vec(self, type, key)
    ELSE LET c_key == CString_new(key)
         IN  IF ~ c_key.ok THEN NulError
             ELSE LET g == APersistableBundle_get(self, type, c_key.value)
                  IN  IF g.found THEN OkValue(Some(g.value)) ELSE OkValue(None)

(***************************************************************************)
(* The state machine.  The verifier's three maps; the call in progress,    *)
(* its caller's position and its result; and, per device, a record of the  *)
(* accepted events (history, read by no operation).                        *)
(***************************************************************************)
VARIABLES touching_pointer_ids_by_device, hovering_pointer_ids_by_device,
          button_verifier_by_device, pc, call, result, accepted_down,
          held_buttons, bundle

verifier == <<touching_pointer_ids_by_device, hovering_pointer_ids_by_device,
              button_verifier_by_device>>

vars == <<touching_pointer_ids_by_device, hovering_pointer_ids_by_device,
          button_verifier_by_device, pc, call, result, accepted_down,
          held_buttons, bundle>>

Self ==
    [touching_pointer_ids_by_device |-> touching_pointer_ids_by_device,
     hovering_pointer_ids_by_device |-> hovering_pointer_ids_by_device,
     button_verifier_by_device |-> button_verifier_by_device]

\* B_d and P_d: the confirmed and the pending buttons of device d, empty
\* for a device without a ButtonVerifier.
B(verifiers, d) == IF contains_key(verifiers, d) THEN verifiers[d].button_state ELSE {}

P(verifiers, d) == IF contains_key(verifiers, d) THEN verifiers[d].pending_buttons ELSE {}

NoCall == [op |-> "none"]

NoResult == "None"

\* accepted_down[d]: whether the accepted Pointer-class events of device d
\* end with a Down followed only by ButtonPress events, and if so the
\* button state which that Down declared and the buttons it added to the
\* confirmed ones.
NoDown == [valid |-> FALSE, button_state |-> {}, added |-> {}]

record_accepted(history, action, button_state, confirmed) ==
    IF action.kind = "Down"
    THEN [valid |-> TRUE, button_state |-> button_state,
          added |-> button_state \ confirmed]
    ELSE IF action.kind = "ButtonPress" THEN history
    ELSE NoDown

\* held_buttons[d]: the buttons for which a Pointer-class ButtonPress of
\* device d was accepted with no accepted ButtonRelease of the button after it.
record_held(history, action, action_button) ==
    IF action.kind = "ButtonPress" THEN history \cup action_button
    ELSE IF action.kind = "ButtonRelease" THEN history \ action_button
    ELSE history

Init ==
    /\ touching_pointer_ids_by_device = InputVerifier_new.touching_pointer_ids_by_device
    /\ hovering_pointer_ids_by_device = InputVerifier_new.hovering_pointer_ids_by_device
    /\ button_verifier_by_device = InputVerifier_new.button_verifier_by_device
    /\ pc = "idle"
    /\ call = NoCall
    /\ result = NoResult
    /\ accepted_down = [d \in Devices |-> NoDown]
    /\ held_buttons = [d \in Devices |-> {}]
    /\ bundle = PersistableBundle_new

\* A caller submits a process_movement call with arguments of the given sets.
SubmitProcessMovement(devices, sources, actions, action_buttons, pointers, flagsets, button_states) ==
    /\ pc = "idle"
    /\ \E device_id \in devices, source \in sources, action \in actions,
          action_button \in action_buttons, pointer_properties \in pointers,
          flags \in flagsets, button_state \in button_states :
          call' = [op |-> "process_movement", device_id |-> device_id,
                   source |-> source, action |-> action,
                   action_button |-> action_button,
                   pointer_properties |-> pointer_properties,
                   flags |-> flags, button_state |-> button_state]
    /\ pc' = "called"
    /\ UNCHANGED <<verifier, result, accepted_down, held_buttons, bundle>>

\* A caller submits a reset_device call.
SubmitResetDevice(devices) ==
    /\ pc = "idle"
    /\ \E device_id \in devices :
          call' = [op |-> "reset_device", device_id |-> device_id]
    /\ pc' = "called"
    /\ UNCHANGED <<verifier, result, accepted_down, held_buttons, bundle>>

\* The calls of the callers of the model, each with every declared button
\* state.  The events of a Pointer-class source whose action the pointer
\* step matches on come with every descriptor sequence and with no or one
\* action button, which verify_event rejects; the CANCELED flag, which the
\* verifier reads for a Cancel only, comes with the Cancel events; the
\* button events and the events of the other actions, whose descriptors
\* only verify_event reads, come with every action button and at most one
\* descriptor; and the events of another source, which the verifier does
\* not look into, come with at most the primary button.
PointerSources == {source \in Sources : is_from_class(source, "Pointer")}

GestureKinds ==
    {"Down", "PointerDown", "Move", "PointerUp", "Up", "Cancel",
     "HoverEnter", "HoverMove", "HoverExit"}

GestureCodes ==
    {action \in ActionCodes : MotionAction_from(action).kind \in GestureKinds}

CancelCodes == {action \in ActionCodes : MotionAction_from(action).kind = "Cancel"}

PrimaryOnly == SUBSET {"Primary"}

ShortPointerSeqs == {p \in PointerSeqs : Len(p) <= 1}

CallProcessMovement ==
    SubmitProcessMovement(CallerDevices, PointerSources, GestureCodes, PrimaryOnly,
                          PointerSeqs, {{}}, MotionButton)

CallCanceled ==
    SubmitProcessMovement(CallerDevices, PointerSources, CancelCodes, PrimaryOnly,
                          PointerSeqs, MotionFlags \ {{}}, MotionButton)

CallButtons ==
    SubmitProcessMovement(CallerDevices, PointerSources, ActionCodes \ GestureCodes,
                          MotionButton, ShortPointerSeqs, {{}}, MotionButton)

CallOtherSource ==
    SubmitProcessMovement(CallerDevices, Sources \ PointerSources, ActionCodes,
                          PrimaryOnly, ShortPointerSeqs, {{}}, PrimaryOnly)

CallResetDevice == SubmitResetDevice(CallerDevices)

SetVerifier(self) ==
    /\ touching_pointer_ids_by_device' = self.touching_pointer_ids_by_device
    /\ hovering_pointer_ids_by_device' = self.hovering_pointer_ids_by_device
    /\ button_verifier_by_device' = self.button_verifier_by_device

\* What the call in progress does to the verifier it is made on: the result
\* it returns and the verifier as it leaves it.
Outcome ==
    IF call.op = "process_movement"
    THEN process_movement(Self, call.device_id, call.source, call.action,
                          call.action_button, call.pointer_properties,
                          call.flags, call.button_state)
    ELSE [result |-> Ok, self |-> reset_device(Self, call.device_id)]

\* InputVerifier::process_movement, the whole call.
ProcessMovement ==
    /\ pc = "called"
    /\ call.op = "process_movement"
    /\ LET r == Outcome
       IN  /\ SetVerifier(r.self)
           /\ result' = r.result
           /\ accepted_down' =
                 IF r.result = Ok /\ is_from_class(call.source, "Pointer")
                 THEN [accepted_down EXCEPT
                         ![call.device_id] =
                             record_accepted(@, MotionAction_from(call.action),
                                             call.button_state,
                                             B(button_verifier_by_device,
                                               call.device_id))]
                 ELSE accepted_down
           /\ held_buttons' =
                 IF r.result = Ok /\ is_from_class(call.source, "Pointer")
                 THEN [held_buttons EXCEPT
                         ![call.device_id] =
                             record_held(@, MotionAction_from(call.action),
                                         call.action_button)]
                 ELSE held_buttons
    /\ pc' = "returned"
    /\ UNCHANGED <<call, bundle>>

\* InputVerifier::reset_device, the whole call.
ResetDevice ==
    /\ pc = "called"
    /\ call.op = "reset_device"
    /\ SetVerifier(Outcome.self)
    /\ result' = Outcome.result
    /\ pc' = "returned"
    /\ UNCHANGED <<call, accepted_down, held_buttons, bundle>>

\* The caller takes the result.
Return ==
    /\ pc = "returned"
    /\ pc' = "idle"
    /\ call' = NoCall
    /\ result' = NoResult
    /\ UNCHANGED <<verifier, accepted_down, held_buttons, bundle>>

Next ==
    \/ CallProcessMovement
    \/ CallCanceled
    \/ CallButtons
    \/ CallOtherSource
    \/ CallResetDevice
    \/ ProcessMovement
    \/ ResetDevice
    \/ Return

Spec == Init /\ [][Next]_vars

(***************************************************************************)
(* The verifier with callers for every device, as in the test              *)
(* multi_device_stream: touchscreen events of one or two pointers, with    *)
(* at most the primary button, for any of the devices in any order.        *)
(***************************************************************************)
DeviceActionCodes ==
    {k \in 0..MaxActionKind : KindName(k) \in {"Down", "Up", "Move", "PointerUp",
                                               "HoverEnter", "HoverExit",
                                               "ButtonPress", "ButtonRelease"}}
        \cup {k + 2 ^ POINTER_INDEX_SHIFT : k \in {j \in 0..MaxActionKind :
                                                    KindName(j) = "PointerDown"}}

DeviceButtons == SUBSET {"Primary"}

DevicePointerSeqs ==
    {p \in PointerSeqs : Len(p) >= 1 /\ \A i \in 1..Len(p) : p[i].id = i - 1}

CallProcessMovementDevices ==
    SubmitProcessMovement(Devices, {"Touchscreen"}, DeviceActionCodes,
                          DeviceButtons, DevicePointerSeqs, {{}}, DeviceButtons)

CallResetDeviceDevices == SubmitResetDevice(Devices)

NextDevices ==
    \/ CallProcessMovementDevices
    \/ CallResetDeviceDevices
    \/ ProcessMovement
    \/ ResetDevice
    \/ Return

SpecDevices == Init /\ [][NextDevices]_vars

(***************************************************************************)
(* The bundle with its callers, as in the tests of persistable_bundle.rs:  *)
(* keys with and without a NUL character, and a few values of each type.   *)
(***************************************************************************)
MaxVecLen == 2

BundleKeys == {<<"a">>, <<"b">>, <<"a", NUL, "b">>, <<NUL>>}

Vecs(elements) == UNION {[1..n -> elements] : n \in 0..MaxVecLen}

BundleValues(type) ==
    CASE type = "bool" -> BOOLEAN
      [] type = "int" -> {0, 42}
      [] type = "long" -> {66}
      [] type = "double" -> {123}
      [] type = "string" -> {<<"f">>, <<"f", NUL>>}
      [] type = "bool_vec" -> Vecs({TRUE})
      [] type = "int_vec" -> Vecs({42})
      [] type = "long_vec" -> Vecs({66})
      [] type = "double_vec" -> Vecs({123})
      [] type = "string_vec" -> {<<>>, <<<<"f">>>>, <<<<"f">>, <<NUL>>>>}
      [] type = "persistable_bundle" ->
            {PersistableBundle_new,
             APersistableBundle_put(PersistableBundle_new, "int", <<"a">>, 42)}

SubmitBundle(c) ==
    /\ pc = "idle"
    /\ call' = c
    /\ pc' = "called"
    /\ UNCHANGED <<verifier, result, accepted_down, held_buttons, bundle>>

CallInsert ==
    \E type \in InsertTypes, key \in BundleKeys :
       \E value \in BundleValues(type) :
          SubmitBundle([op |-> "insert", type |-> type, key |-> key, value |-> value])

CallGet ==
    \E type \in GetTypes, key \in BundleKeys :
       SubmitBundle([op |-> "get", type |-> type, key |-> key])

CallRemove == \E key \in BundleKeys : SubmitBundle([op |-> "remove", key |-> key])

CallSize == SubmitBundle([op |-> "size"])

ReturnBundle(r, self) ==
    /\ result' = r
    /\ bundle' = self
    /\ pc' = "returned"
    /\ UNCHANGED <<verifier, call, accepted_down, held_buttons>>

\* What the call in progress does to the bundle it is made on: the result
\* it returns and the bundle as it leaves it.
BundleOutcome ==
    CASE call.op = "insert" ->
            PersistableBundle_insert(bundle, call.type, call.key, call.value)
      [] call.op = "get" ->
            [result |-> PersistableBundle_get(bundle, call.type, call.key),
             self |-> bundle]
      [] call.op = "remove" -> PersistableBundle_remove(bundle, call.key)
      [] call.op = "size" ->
            [result |-> OkValue(PersistableBundle_size(bundle)), self |-> bundle]

\* PersistableBundle::insert_*, the whole call.
BundleInsert ==
    /\ pc = "called"
    /\ call.op = "insert"
    /\ ReturnBundle(BundleOutcome.result, BundleOutcome.self)

\* PersistableBundle::get_*, the whole call.
BundleGet ==
    /\ pc = "called"
    /\ call.op = "get"
    /\ ReturnBundle(BundleOutcome.result, BundleOutcome.self)

\* PersistableBundle::remove, the whole call.
BundleRemove ==
    /\ pc = "called"
    /\ call.op = "remove"
    /\ ReturnBundle(BundleOutcome.result, BundleOutcome.self)

\* PersistableBundle::size, the whole call.
BundleSize ==
    /\ pc = "called"
    /\ call.op = "size"
    /\ ReturnBundle(BundleOutcome.result, BundleOutcome.self)

NextBundle ==
    \/ CallInsert
    \/ CallGet
    \/ CallRemove
    \/ CallSize
    \/ BundleInsert
    \/ BundleGet
    \/ BundleRemove
    \/ BundleSize
    \/ Return

SpecBundle == Init /\ [][NextBundle]_vars

(***************************************************************************)
(* Properties.  A call is in its "called" state before the operation runs  *)
(* and in its "returned" state after it, with the arguments still in       *)
(* `call` and the verdict in `result`.                                     *)
(***************************************************************************)
Processing == pc = "called" /\ call.op = "process_movement"

Processed == pc = "returned" /\ call.op = "process_movement"

PointerCall == is_from_class(call.source, "Pointer")

CallAction == MotionAction_from(call.action)

HasTouching(d) == contains_key(touching_pointer_ids_by_device, d)

HasHovering(d) == contains_key(hovering_pointer_ids_by_device, d)

\* C1: a process_movement call that returns an error leaves the touching
\* and the hovering pointer sets of every device as they were.
C1_ErrorKeepsPointerSets ==
    [][(Processing /\ IsErr(result'))
          => /\ touching_pointer_ids_by_device' = touching_pointer_ids_by_device
             /\ hovering_pointer_ids_by_device' = hovering_pointer_ids_by_device]_vars

\* C2: a process_movement call that returns an error leaves the confirmed
\* and the pending buttons of every device as they were.
C2_ErrorKeepsButtonState ==
    [][(Processing /\ IsErr(result'))
          => \A d \in Devices :
                /\ B(button_verifier_by_device', d) = B(button_verifier_by_device, d)
                /\ P(button_verifier_by_device', d) = P(button_verifier_by_device, d)]_vars

\* C3: in every reachable state no pointer id of a device is both touching
\* and hovering.
C3_TouchingHoveringDisjoint ==
    \A d \in Devices :
        (HasTouching(d) /\ HasHovering(d))
            => touching_pointer_ids_by_device[d]
                   \cap hovering_pointer_ids_by_device[d] = {}

\* C4: a touching set that is present holds at least one pointer id.
C4_TouchingNonEmpty ==
    \A d \in Devices : HasTouching(d) => touching_pointer_ids_by_device[d] # {}

\* C5: after reset_device(d) the device is as if never mentioned: no
\* touching set, no hovering set, no confirmed and no pending buttons.
C5_ResetClearsDevice ==
    (pc = "returned" /\ call.op = "reset_device")
        => /\ ~ HasTouching(call.device_id)
           /\ ~ HasHovering(call.device_id)
           /\ B(button_verifier_by_device, call.device_id) = {}
           /\ P(button_verifier_by_device, call.device_id) = {}

\* C6: after an accepted Down that added buttons, the pending set becomes
\* empty only by an accepted ButtonPress, the confirmed set is then the
\* state the Down declared, and until then only ButtonPress is accepted.
C6_PendingClearedByPresses ==
    [][\A d \in Devices :
          (accepted_down[d].valid /\ accepted_down[d].added # {}
              /\ P(button_verifier_by_device, d) # {})
          => /\ (P(button_verifier_by_device', d) = {})
                   => /\ Processing /\ call.device_id = d /\ result' = Ok
                      /\ CallAction.kind = "ButtonPress"
                      /\ B(button_verifier_by_device', d) = accepted_down[d].button_state
             /\ (Processing /\ call.device_id = d /\ PointerCall /\ result' = Ok)
                   => CallAction.kind = "ButtonPress"]_vars

\* C7: whenever buttons are pending, the accepted events of the device end
\* with a Down followed only by ButtonPress events, and the pending buttons
\* are that Down's declared state minus the confirmed buttons.
C7_PendingFromLastDown ==
    \A d \in Devices :
        P(button_verifier_by_device, d) # {}
            => /\ accepted_down[d].valid
               /\ P(button_verifier_by_device, d)
                      = accepted_down[d].button_state \ B(button_verifier_by_device, d)

\* C8: while buttons are pending on a device, a Pointer-class event of the
\* device is accepted only if it is a ButtonPress of a pending button.
C8_PendingAcceptsOnlyPress ==
    (Processing /\ PointerCall
       /\ P(button_verifier_by_device, call.device_id) # {}
       /\ Outcome.result = Ok)
       => /\ CallAction.kind = "ButtonPress"
          /\ call.action_button # {}
          /\ call.action_button \subseteq P(button_verifier_by_device, call.device_id)

\* An accepted ButtonPress that leaves buttons pending: buttons were pending
\* when it was submitted, since only a Down adds pending buttons.
C8_Witness ==
    /\ Processed /\ PointerCall /\ result = Ok
    /\ CallAction.kind = "ButtonPress"
    /\ P(button_verifier_by_device, call.device_id) # {}

\* C9 as stated: after every process_movement call that returns success the
\* confirmed buttons are among the buttons which the call declared.
C9_ConfirmedWithinDeclared ==
    (Processed /\ result = Ok)
        => B(button_verifier_by_device, call.device_id) \subseteq call.button_state

\* C9 amended: after every process_movement call of a Pointer-class source
\* that returns success the confirmed buttons are among the buttons which
\* the call declared.
C9_PointerConfirmedWithinDeclared ==
    (Processed /\ PointerCall /\ result = Ok)
        => B(button_verifier_by_device, call.device_id) \subseteq call.button_state

\* An accepted Down which declares a held button and one more.
C9_Witness ==
    /\ Processed /\ PointerCall /\ result = Ok
    /\ CallAction.kind = "Down"
    /\ B(button_verifier_by_device, call.device_id) # {}
    /\ B(button_verifier_by_device, call.device_id) # call.button_state

\* C10: a process_movement call of a source outside the Pointer class
\* returns success and changes nothing of the verifier.
C10_NonPointerAccepted ==
    (Processing /\ ~ PointerCall)
       => /\ Outcome.result = Ok
          /\ Outcome.self = Self

\* A non-Pointer call without descriptors and with an action button on a
\* Move has returned, while the device has a pointer down and buttons pending.
C10_Witness ==
    /\ Processed /\ ~ PointerCall /\ result = Ok
    /\ call.pointer_properties = <<>>
    /\ CallAction.kind = "Move" /\ call.action_button # {}
    /\ HasTouching(call.device_id)
    /\ P(button_verifier_by_device, call.device_id) # {}

(***************************************************************************)
(* The state of one device by itself.                                      *)
(***************************************************************************)
\* The entry of a key: the sequence of its value, empty if it has none.
Entry(map, key) == IF contains_key(map, key) THEN <<map[key]>> ELSE <<>>

\* T, H, B and P of device d.
DeviceState(self, d) ==
    [T |-> Entry(self.touching_pointer_ids_by_device, d),
     H |-> Entry(self.hovering_pointer_ids_by_device, d),
     B |-> B(self.button_verifier_by_device, d),
     P |-> P(self.button_verifier_by_device, d)]

\* The map that holds for key e what `map` holds for key d, and nothing else.
MoveEntry(map, d, e) ==
    IF contains_key(map, d) THEN insert(EmptyMap, e, map[d]) ELSE EmptyMap

\* The verifier that knows device d alone, by the name e.
Alone(self, d, e) ==
    [touching_pointer_ids_by_device |-> MoveEntry(self.touching_pointer_ids_by_device, d, e),
     hovering_pointer_ids_by_device |-> MoveEntry(self.hovering_pointer_ids_by_device, d, e),
     button_verifier_by_device |-> MoveEntry(self.button_verifier_by_device, d, e)]

\* The call in progress made for device e on the verifier `self`.
CallOn(self, e) ==
    IF call.op = "process_movement"
    THEN process_movement(self, e, call.source, call.action, call.action_button,
                          call.pointer_properties, call.flags, call.button_state)
    ELSE [result |-> Ok, self |-> reset_device(self, e)]

\* C11: a process_movement or reset_device call for device d changes T, H,
\* B and P of no other device, and its verdict and the state it leaves for
\* d are those of the same call made, for any device, on a verifier that
\* holds the state of d and of no other device: they depend on the earlier
\* calls for d alone, whatever the device is called and however the calls
\* for other devices are interleaved.
C11_DevicesIndependent ==
    (pc = "called")
       => /\ \A d \in Devices \ {call.device_id} :
                 DeviceState(Outcome.self, d) = DeviceState(Self, d)
          /\ \A e \in Devices :
                 LET r == CallOn(Alone(Self, call.device_id, e), e)
                 IN  /\ Outcome.result = r.result
                     /\ DeviceState(Outcome.self, call.device_id) = DeviceState(r.self, e)

C11_Witness ==
    /\ Processed
    /\ result = Ok
    /\ \E d \in Devices \ {call.device_id} :
          /\ HasTouching(d)
          /\ HasTouching(call.device_id)
          /\ touching_pointer_ids_by_device[d] # touching_pointer_ids_by_device[call.device_id]
          /\ B(button_verifier_by_device, d) # B(button_verifier_by_device, call.device_id)

(***************************************************************************)
(* The diagnostics, by the step that returns them.                         *)
(***************************************************************************)
EventErrs ==
    {"Err:NoPointers", "Err:ActionButtonOnNonButtonAction", "Err:PointerCount",
     "Err:NotCanceled", "Err:ActionIndex", "Err:ActionButtonCount"}

ButtonErrs ==
    {"Err:ExpectedButtonPress", "Err:DownMissingButtons", "Err:DuplicateButtonPress",
     "Err:InvalidButtonRelease", "Err:UnexpectedButtonState"}

PointerErrs ==
    {"Err:PointersAlreadyDown", "Err:NoPointersDown", "Err:PointerCountMismatch",
     "Err:PointerAlreadyPresent", "Err:MovePointersDontMatch",
     "Err:PointerUpPointersDontMatch", "Err:UpNoPointersDown", "Err:UpPointerCount",
     "Err:UpPointerNotTouching", "Err:CancelPointersDontMatch",
     "Err:AlreadyHovering", "Err:NotHovering", "Err:StillHovering"}

\* The call passed verify_event and the button step.
PassedButtonStep(r) == r \notin EventErrs \cup ButtonErrs

\* C12: whatever the state and the arguments, process_movement returns
\* success or a diagnostic and never panics: no index is out of bounds, the
\* descriptor count less one does not underflow, every entry read is present.
C12_NoPanic ==
    Processed => /\ result # Panic
                 /\ result \in {Ok} \cup EventErrs \cup ButtonErrs \cup PointerErrs

C12_Witness ==
    /\ Processed
    /\ PointerCall
    /\ CallAction.kind \in {"PointerDown", "PointerUp"}
    /\ Len(call.pointer_properties) = MaxPointers
    /\ CallAction.action_index = Len(call.pointer_properties) - 1
    /\ result = Ok

\* C13, as claimed: a Pointer-class Up whose declared button_state still
\* contains a button that is held, not released by a ButtonRelease, is
\* rejected.
C13_UpWithHeldButtonRejected ==
    [][(Processing /\ PointerCall /\ CallAction.kind = "Up"
          /\ call.button_state \cap B(button_verifier_by_device, call.device_id) # {})
          => IsErr(result')]_vars

\* C13, amended: a Pointer-class Up whose declared button_state omits a
\* button that is held, not released by a ButtonRelease, is rejected: an Up
\* cannot drop a button.
C13_UpDroppingButtonRejected ==
    (Processing /\ PointerCall /\ CallAction.kind = "Up"
       /\ B(button_verifier_by_device, call.device_id) \ call.button_state # {})
       => IsErr(Outcome.result)

\* The Up of the only touching pointer, rejected for the button it drops.
C13_Witness ==
    /\ Processed
    /\ PointerCall
    /\ CallAction.kind = "Up"
    /\ result = "Err:UnexpectedButtonState"
    /\ B(button_verifier_by_device, call.device_id) \ call.button_state # {}
    /\ HasTouching(call.device_id)
    /\ touching_pointer_ids_by_device[call.device_id] = {call.pointer_properties[1].id}

\* The kinds of action with a branch of their own in the button step.
ButtonStepKinds == {"Down", "ButtonPress", "ButtonRelease"}

\* C14: with no button pending on the device, a Pointer-class event that is
\* no Down, ButtonPress or ButtonRelease is accepted only if its declared
\* button_state is exactly B_d, and then B_d stays as it is; B_d of a device
\* changes only in an accepted ButtonPress or ButtonRelease of the device.
C14_OnlyPressAndReleaseChangeButtons ==
    /\ (Processing /\ PointerCall
          /\ CallAction.kind \notin ButtonStepKinds
          /\ P(button_verifier_by_device, call.device_id) = {}
          /\ Outcome.result = Ok)
       => /\ call.button_state = B(button_verifier_by_device, call.device_id)
          /\ B(Outcome.self.button_verifier_by_device, call.device_id)
                 = B(button_verifier_by_device, call.device_id)
    /\ \A d \in Devices :
          (/\ pc = "called"
           /\ B(Outcome.self.button_verifier_by_device, d)
                 # B(button_verifier_by_device, d))
             => /\ Processing /\ PointerCall
                /\ call.device_id = d
                /\ CallAction.kind \in {"ButtonPress", "ButtonRelease"}
                /\ Outcome.result = Ok

\* A Move accepted while a button is held.
C14_Witness ==
    /\ Processed
    /\ PointerCall
    /\ CallAction.kind = "Move"
    /\ result = Ok
    /\ call.button_state # {}
    /\ call.button_state = B(button_verifier_by_device, call.device_id)
    /\ P(button_verifier_by_device, call.device_id) = {}

\* No device's T, H, B or P differs between the verifiers.
SameDeviceStates(self, other) ==
    \A d \in Devices : DeviceState(self, d) = DeviceState(other, d)

\* C15, as claimed: an event whose action code has an unknown kind is
\* accepted in every state, and T, H, B and P are left as they were (read
\* of the events that pass verify_event).
C15_UnknownAccepted ==
    [][(Processing /\ CallAction.kind = "Unknown"
          /\ verify_event(CallAction, call.action_button, call.pointer_properties,
                          call.flags) = Ok)
          => /\ result' = Ok
             /\ SameDeviceStates(Self', Self)]_vars

\* C15, amended: a Pointer-class event whose action code has an unknown
\* kind is accepted exactly when it has at least one descriptor and an
\* empty action button, no button is pending on the device and its declared
\* button_state is B_d; accepted or not, T, H, B and P are left as they
\* were.
C15_UnknownAcceptedWhenConsistent ==
    (Processing /\ PointerCall /\ CallAction.kind = "Unknown")
       => /\ Outcome.result = Ok
                <=> /\ Len(call.pointer_properties) >= 1
                    /\ call.action_button = {}
                    /\ P(button_verifier_by_device, call.device_id) = {}
                    /\ call.button_state
                           = B(button_verifier_by_device, call.device_id)
          /\ SameDeviceStates(Outcome.self, Self)

\* An event of unknown kind accepted in the middle of a gesture, with a
\* button held.
C15_Witness ==
    /\ Processed
    /\ PointerCall
    /\ CallAction.kind = "Unknown"
    /\ result = Ok
    /\ HasTouching(call.device_id)
    /\ B(button_verifier_by_device, call.device_id) # {}

\* The event of the call passes verify_event.
WellFormed ==
    verify_event(CallAction, call.action_button, call.pointer_properties,
                 call.flags) = Ok

\* C16: with no button pending on the device, a well-formed Pointer-class
\* Down is rejected by the button step exactly when its declared
\* button_state lacks a button of B_d; when it passes the button step, P_d
\* becomes the declared state minus B_d and B_d stays as it is.
C16_DownButtonStep ==
    (Processing /\ PointerCall /\ WellFormed
       /\ CallAction.kind = "Down"
       /\ P(button_verifier_by_device, call.device_id) = {})
       => /\ Outcome.result \in ButtonErrs
                <=> B(button_verifier_by_device, call.device_id)
                       \ call.button_state # {}
          /\ Outcome.result \notin ButtonErrs
                => /\ P(Outcome.self.button_verifier_by_device, call.device_id)
                         = call.button_state
                              \ B(button_verifier_by_device, call.device_id)
                   /\ B(Outcome.self.button_verifier_by_device, call.device_id)
                         = B(button_verifier_by_device, call.device_id)

\* A Down accepted with a button held and another one declared on top.
C16_Witness ==
    /\ Processed
    /\ PointerCall
    /\ CallAction.kind = "Down"
    /\ result = Ok
    /\ B(button_verifier_by_device, call.device_id) # {}
    /\ P(button_verifier_by_device, call.device_id) # {}
    /\ call.button_state = B(button_verifier_by_device, call.device_id)
                              \cup P(button_verifier_by_device, call.device_id)

\* C17: with no button pending on the device, a well-formed Pointer-class
\* ButtonPress of the single button b is accepted exactly when b is not in
\* B_d and the declared button_state is B_d plus b; B_d then becomes B_d
\* plus b.
C17_ButtonPress ==
    (Processing /\ PointerCall /\ WellFormed
       /\ CallAction.kind = "ButtonPress"
       /\ P(button_verifier_by_device, call.device_id) = {})
       => LET confirmed == B(button_verifier_by_device, call.device_id)
          IN  /\ Outcome.result = Ok
                    <=> /\ call.action_button \cap confirmed = {}
                        /\ call.button_state = confirmed \cup call.action_button
              /\ Outcome.result = Ok
                    => B(Outcome.self.button_verifier_by_device, call.device_id)
                          = confirmed \cup call.action_button

\* The press of a second button, with no accepted Down before the presses.
C17_Witness ==
    /\ Processed
    /\ PointerCall
    /\ CallAction.kind = "ButtonPress"
    /\ result = Ok
    /\ ~ accepted_down[call.device_id].valid
    /\ P(button_verifier_by_device, call.device_id) = {}
    /\ B(button_verifier_by_device, call.device_id) = Buttons

\* C18: a well-formed Pointer-class ButtonRelease of the single button b
\* is accepted exactly when no button is pending on the device, b is in
\* B_d and the declared button_state is B_d minus b; B_d then becomes B_d
\* minus b.
C18_ButtonRelease ==
    (Processing /\ PointerCall /\ WellFormed
       /\ CallAction.kind = "ButtonRelease")
       => LET confirmed == B(button_verifier_by_device, call.device_id)
          IN  /\ Outcome.result = Ok
                    <=> /\ P(button_verifier_by_device, call.device_id) = {}
                        /\ call.action_button \subseteq confirmed
                        /\ call.button_state = confirmed \ call.action_button
              /\ Outcome.result = Ok
                    => B(Outcome.self.button_verifier_by_device, call.device_id)
                          = confirmed \ call.action_button

\* The release of one of two held buttons.
C18_Witness ==
    /\ Processed
    /\ PointerCall
    /\ CallAction.kind = "ButtonRelease"
    /\ result = Ok
    /\ B(button_verifier_by_device, call.device_id) # {}
    /\ call.action_button \cap B(button_verifier_by_device, call.device_id) = {}

\* The ids of the descriptors of the call.
CallIds == {call.pointer_properties[i].id : i \in 1..Len(call.pointer_properties)}

\* C19: a Pointer-class Up that passes verify_event and the button step is
\* accepted exactly when T_d is present and holds one id, the id of the
\* event's descriptor; T_d is then absent, and a Down that passes
\* verify_event and the button step while T_d is absent is accepted: a
\* Down ... Up sequence ends with no gesture and a new one can start.  An
\* Up with no Down before it, T_d absent, is rejected.
C19_UpEndsGesture ==
    /\ (Processing /\ PointerCall /\ CallAction.kind = "Up"
          /\ PassedButtonStep(Outcome.result))
       => /\ Outcome.result = Ok
                <=> /\ HasTouching(call.device_id)
                    /\ Cardinality(touching_pointer_ids_by_device[call.device_id]) = 1
                    /\ call.pointer_properties[1].id
                           \in touching_pointer_ids_by_device[call.device_id]
          /\ Outcome.result = Ok
                => ~ contains_key(Outcome.self.touching_pointer_ids_by_device, call.device_id)
    /\ (Processing /\ PointerCall /\ CallAction.kind = "Up"
          /\ ~ HasTouching(call.device_id))
       => IsErr(Outcome.result)
    /\ (Processing /\ PointerCall /\ CallAction.kind = "Down"
          /\ PassedButtonStep(Outcome.result)
          /\ ~ HasTouching(call.device_id))
       => Outcome.result = Ok

\* An Up accepted: the gesture of the device is over.
C19_Witness ==
    /\ Processed
    /\ PointerCall
    /\ CallAction.kind = "Up"
    /\ result = Ok
    /\ ~ HasTouching(call.device_id)

\* C20: a Pointer-class Move that passes verify_event and the button step
\* is accepted exactly when T_d is present, holds as many ids as the event
\* has descriptors and holds every descriptor id; a Move, accepted or not,
\* leaves T as it was; and a Move that omits one of the touching pointers
\* is rejected.
C20_MoveMatchesTouching ==
    [][(Processing /\ PointerCall /\ CallAction.kind = "Move")
          => /\ PassedButtonStep(result')
                   => (result' = Ok
                         <=> /\ HasTouching(call.device_id)
                             /\ Cardinality(touching_pointer_ids_by_device[call.device_id])
                                    = Len(call.pointer_properties)
                             /\ CallIds \subseteq touching_pointer_ids_by_device[call.device_id])
             /\ touching_pointer_ids_by_device' = touching_pointer_ids_by_device
             /\ (/\ HasTouching(call.device_id)
                 /\ touching_pointer_ids_by_device[call.device_id] \ CallIds # {})
                   => IsErr(result')]_vars

\* The touching set of the call's device is present and matches the
\* descriptors of the call as ensure_touching_pointers_match has it.
TouchingMatchesCall ==
    /\ HasTouching(call.device_id)
    /\ Cardinality(touching_pointer_ids_by_device[call.device_id])
           = Len(call.pointer_properties)
    /\ CallIds \subseteq touching_pointer_ids_by_device[call.device_id]

\* C21: a Pointer-class Cancel whose flags lack CANCELED is rejected in
\* every state; with the flag, a Cancel that passes verify_event and the
\* button step is accepted exactly when T_d is present, holds as many ids
\* as the event has descriptors and holds every descriptor id, and T_d is
\* then absent.
C21_Cancel ==
    (Processing /\ PointerCall /\ CallAction.kind = "Cancel")
       => /\ ~ contains(call.flags, {"CANCELED"}) => IsErr(Outcome.result)
          /\ (contains(call.flags, {"CANCELED"}) /\ PassedButtonStep(Outcome.result))
                => /\ Outcome.result = Ok <=> TouchingMatchesCall
                   /\ Outcome.result = Ok
                         => ~ contains_key(Outcome.self.touching_pointer_ids_by_device,
                                           call.device_id)

\* A Cancel of two pointers accepted: the gesture of the device is over.
C21_Witness ==
    /\ Processed
    /\ PointerCall
    /\ CallAction.kind = "Cancel"
    /\ Len(call.pointer_properties) = 2
    /\ result = Ok
    /\ ~ HasTouching(call.device_id)

\* C22: a Pointer-class HoverEnter that passes verify_event and the button
\* step is rejected exactly when H_d is present, and otherwise accepted
\* with H_d becoming the set of the one descriptor id.
C22_HoverEnter ==
    (Processing /\ PointerCall /\ CallAction.kind = "HoverEnter"
       /\ PassedButtonStep(Outcome.result))
       => /\ IsErr(Outcome.result) <=> HasHovering(call.device_id)
          /\ Outcome.result = Ok
                => /\ contains_key(Outcome.self.hovering_pointer_ids_by_device, call.device_id)
                   /\ Outcome.self.hovering_pointer_ids_by_device[call.device_id]
                         = {call.pointer_properties[1].id}

\* A second HoverEnter, with the first one not yet left.
C22_Witness ==
    /\ Processed
    /\ PointerCall
    /\ CallAction.kind = "HoverEnter"
    /\ result = "Err:AlreadyHovering"
    /\ HasHovering(call.device_id)

\* C23: a Pointer-class HoverExit of descriptor id q0 that passes
\* verify_event and the button step is rejected when H_d is absent, when q0
\* is not in H_d and when another pointer would remain hovering; it is
\* accepted exactly when H_d = {q0}; H_d is then absent, and a HoverEnter
\* that passes verify_event and the button step with H_d absent is accepted.
C23_HoverExit ==
    /\ (Processing /\ PointerCall /\ CallAction.kind = "HoverExit"
          /\ PassedButtonStep(Outcome.result))
       => LET q0 == call.pointer_properties[1].id
          IN  /\ (\/ ~ HasHovering(call.device_id)
                   \/ q0 \notin hovering_pointer_ids_by_device[call.device_id]
                   \/ hovering_pointer_ids_by_device[call.device_id] \ {q0} # {})
                     => IsErr(Outcome.result)
              /\ Outcome.result = Ok
                     <=> /\ HasHovering(call.device_id)
                         /\ hovering_pointer_ids_by_device[call.device_id] = {q0}
              /\ Outcome.result = Ok
                     => ~ contains_key(Outcome.self.hovering_pointer_ids_by_device,
                                       call.device_id)
    /\ (Processing /\ PointerCall /\ CallAction.kind = "HoverEnter"
          /\ PassedButtonStep(Outcome.result)
          /\ ~ HasHovering(call.device_id))
       => Outcome.result = Ok

\* A HoverExit accepted: no pointer of the device hovers.
C23_Witness ==
    /\ Processed
    /\ PointerCall
    /\ CallAction.kind = "HoverExit"
    /\ result = Ok
    /\ ~ HasHovering(call.device_id)

\* C24: a Pointer-class event without descriptors is rejected whatever its
\* action, and a Down, Up, HoverEnter, HoverMove or HoverExit is rejected
\* unless it has exactly one descriptor, in every state; the rejection is
\* verify_event's, which reads no state, and the verifier is left as it was.
C24_PointerCountRejected ==
    (Processing /\ PointerCall
       /\ \/ Len(call.pointer_properties) = 0
          \/ /\ CallAction.kind \in {"Down", "Up", "HoverEnter", "HoverMove",
                                      "HoverExit"}
             /\ Len(call.pointer_properties) # 1)
       => /\ Outcome.result \in EventErrs
          /\ Outcome.self = Self

\* A Down of two descriptors, rejected though no gesture is in progress.
C24_Witness ==
    /\ Processed
    /\ PointerCall
    /\ CallAction.kind = "Down"
    /\ Len(call.pointer_properties) = 2
    /\ call.action_button = {}
    /\ result = "Err:PointerCount"
    /\ ~ HasTouching(call.device_id)

\* C25: a Pointer-class event with a non-empty action button is rejected
\* unless its action is ButtonPress or ButtonRelease, and a ButtonPress or
\* ButtonRelease is rejected unless it has exactly one action button, in
\* every state.
C25_ActionButtonRejected ==
    (Processing /\ PointerCall
       /\ \/ /\ call.action_button # {}
             /\ CallAction.kind \notin {"ButtonPress", "ButtonRelease"}
          \/ /\ CallAction.kind \in {"ButtonPress", "ButtonRelease"}
             /\ Cardinality(call.action_button) # 1)
       => Outcome.result \in EventErrs

\* A ButtonPress of two buttons at once, rejected.
C25_Witness ==
    /\ Processed
    /\ PointerCall
    /\ CallAction.kind = "ButtonPress"
    /\ Cardinality(call.action_button) = 2
    /\ call.button_state = call.action_button
    /\ result = "Err:ActionButtonCount"

\* C26: a Pointer-class PointerDown or PointerUp whose action_index is not
\* below the number of descriptors is rejected in every state by
\* verify_event, which reads no state, and the verifier is left as it was.
C26_ActionIndexRejected ==
    (Processing /\ PointerCall
       /\ CallAction.kind \in {"PointerDown", "PointerUp"}
       /\ CallAction.action_index >= Len(call.pointer_properties))
       => /\ Outcome.result \in EventErrs
          /\ Outcome.self = Self

\* A PointerDown in a gesture, rejected for an index just past the end.
C26_Witness ==
    /\ Processed
    /\ PointerCall
    /\ CallAction.kind = "PointerDown"
    /\ Len(call.pointer_properties) >= 1
    /\ CallAction.action_index = Len(call.pointer_properties)
    /\ result = "Err:ActionIndex"
    /\ HasTouching(call.device_id)

\* The hovering maps that differ from one another in the entry of device d
\* alone: absent, or any set of pointer ids.
HoveringVariants(hovering, d) ==
    {remove(hovering, d)} \cup {insert(hovering, d, ids) : ids \in SUBSET PointerIds}

\* C30: a Pointer-class Down that passes verify_event and the button step
\* is rejected exactly when T_d is present, be it with no pointer in it,
\* and is otherwise accepted with T_d becoming the set of the one
\* descriptor id; whatever H_d is, the verdict is the same.
C30_Down ==
    (Processing /\ PointerCall /\ CallAction.kind = "Down"
       /\ PassedButtonStep(Outcome.result))
       => /\ IsErr(Outcome.result) <=> HasTouching(call.device_id)
          /\ Outcome.result = Ok
                => /\ contains_key(Outcome.self.touching_pointer_ids_by_device, call.device_id)
                   /\ Outcome.self.touching_pointer_ids_by_device[call.device_id]
                         = {call.pointer_properties[1].id}
          /\ \A h \in HoveringVariants(hovering_pointer_ids_by_device, call.device_id) :
                process_movement(Hovering(Self, h), call.device_id, call.source,
                                 call.action, call.action_button,
                                 call.pointer_properties, call.flags,
                                 call.button_state).result = Outcome.result

\* A Down rejected for a touching set that is present and empty, while a
\* pointer of the device hovers.
C30_Witness ==
    /\ Processed
    /\ PointerCall
    /\ CallAction.kind = "Down"
    /\ result = "Err:PointersAlreadyDown"
    /\ HasTouching(call.device_id)
    /\ touching_pointer_ids_by_device[call.device_id] = {}
    /\ HasHovering(call.device_id)

(***************************************************************************)
(* Properties of the bundle.                                               *)
(***************************************************************************)
BundleCalled(op) == pc = "called" /\ call.op = op

BundleReturned(op) == pc = "returned" /\ call.op = op

\* C27: after an insert of any type with a key without NUL has returned
\* Ok, the getter of that type, for the types that have one, returns
\* Some of the inserted value, and the size has grown by one if the key
\* was not in the bundle and not at all if it was: a key counts once.
C27_InsertThenGet ==
    (BundleCalled("insert") /\ ~ HasNul(call.key) /\ BundleOutcome.result = OkValue(Unit))
       => /\ call.type \in GetTypes
                => PersistableBundle_get(BundleOutcome.self, call.type, call.key)
                      = OkValue(Some(call.value))
          /\ PersistableBundle_size(BundleOutcome.self)
                = PersistableBundle_size(bundle)
                     + (IF contains_key(bundle, call.key) THEN 0 ELSE 1)

\* A vector of two values inserted, with another key in the bundle.
C27_Witness ==
    /\ BundleReturned("insert")
    /\ call.type = "int_vec"
    /\ Len(call.value) = 2
    /\ result = OkValue(Unit)
    /\ PersistableBundle_size(bundle) = 2

\* C28: for a key without NUL, a getter returns Ok(None) when the key
\* holds a value of another type and when it is not in the bundle;
\* remove returns Ok(true) exactly when the key was in the bundle, and
\* after it every getter returns Ok(None) for the key and the size is
\* that of the other keys.
C28_WrongTypeAndRemove ==
    /\ (BundleCalled("get") /\ ~ HasNul(call.key)
          /\ \/ ~ contains_key(bundle, call.key)
             \/ bundle[call.key].type # call.type)
       => BundleOutcome.result = OkValue(None)
    /\ (BundleCalled("remove") /\ ~ HasNul(call.key))
       => /\ BundleOutcome.result = OkValue(contains_key(bundle, call.key))
          /\ \A type \in GetTypes :
                PersistableBundle_get(BundleOutcome.self, type, call.key) = OkValue(None)
          /\ PersistableBundle_size(BundleOutcome.self)
                = PersistableBundle_size(bundle)
                     - (IF contains_key(bundle, call.key) THEN 1 ELSE 0)

\* A getter called for a key that holds a value of another type.
C28_Witness ==
    /\ BundleReturned("get")
    /\ contains_key(bundle, call.key)
    /\ bundle[call.key].type \in GetTypes \ {call.type}
    /\ result = OkValue(None)

\* C29: an insert, a get and a remove with a key that contains a NUL
\* character return the error, and the bundle, and so its size, is as it
\* was.
C29_NulKeyRejected ==
    (pc = "called" /\ call.op \in {"insert", "get", "remove"} /\ HasNul(call.key))
       => /\ BundleOutcome.result = NulError
          /\ BundleOutcome.self = bundle

\* An insert rejected for the NUL in the middle of its key, with the part
\* of the key before the NUL a key of the bundle.
C29_Witness ==
    /\ BundleReturned("insert")
    /\ HasNul(call.key)
    /\ call.key[1] # NUL
    /\ contains_key(bundle, <<call.key[1]>>)
    /\ result = NulError

\* The id of the descriptor at the action index of the call.
CallPointerId == call.pointer_properties[CallAction.action_index + 1].id

\* C31: a Pointer-class PointerDown with index i that passes verify_event
\* and the button step is accepted exactly when T_d is present, holds one
\* id fewer than the event has descriptors, and lacks the id of descriptor
\* i; when accepted, T_d has become T_d with exactly that id added.
C31_PointerDown ==
    (Processing /\ PointerCall /\ CallAction.kind = "PointerDown"
       /\ PassedButtonStep(Outcome.result))
       => /\ Outcome.result = Ok
                <=> /\ HasTouching(call.device_id)
                    /\ Cardinality(touching_pointer_ids_by_device[call.device_id])
                           = Len(call.pointer_properties) - 1
                    /\ CallPointerId
                           \notin touching_pointer_ids_by_device[call.device_id]
          /\ Outcome.result = Ok
                => /\ contains_key(Outcome.self.touching_pointer_ids_by_device, call.device_id)
                   /\ Outcome.self.touching_pointer_ids_by_device[call.device_id]
                         = touching_pointer_ids_by_device[call.device_id]
                              \cup {CallPointerId}

\* A PointerDown accepted as the second pointer of the device.
C31_Witness ==
    /\ Processed /\ PointerCall /\ CallAction.kind = "PointerDown"
    /\ result = Ok
    /\ HasTouching(call.device_id)
    /\ Cardinality(touching_pointer_ids_by_device[call.device_id]) = 2
    /\ CallPointerId \in touching_pointer_ids_by_device[call.device_id]

\* The descriptor sequences that name each pointer of the set once.
SeqsOf(ids) ==
    {p \in PointerSeqs : /\ Len(p) = Cardinality(ids)
                         /\ {p[i].id : i \in 1..Len(p)} = ids}

PointerStepResult(self, d, kind, pointer_properties) ==
    pointer_step(self, d, [kind |-> kind, action_index |-> 0],
                 pointer_properties).result

\* C32: a Pointer-class PointerUp with index i that passes verify_event and
\* the button step is accepted exactly when T_d is present, holds as many
\* ids as the event has descriptors, and holds every descriptor id, which
\* is the condition of Move; when accepted, T_d is still present and has
\* become T_d without the id of descriptor i, and in the state it leaves
\* the pointer step accepts a Move that names the pointers still touching
\* and, when one pointer is left, the Up of that pointer.
C32_PointerUp ==
    (Processing /\ PointerCall /\ CallAction.kind = "PointerUp"
       /\ PassedButtonStep(Outcome.result))
       => /\ Outcome.result = Ok <=> TouchingMatchesCall
          /\ Outcome.result = Ok
                => /\ contains_key(Outcome.self.touching_pointer_ids_by_device, call.device_id)
                   /\ Outcome.self.touching_pointer_ids_by_device[call.device_id]
                         = touching_pointer_ids_by_device[call.device_id]
                              \ {CallPointerId}
                   /\ \A p \in SeqsOf(Outcome.self.touching_pointer_ids_by_device[call.device_id]) :
                         Len(p) >= 1
                            => /\ PointerStepResult(Outcome.self, call.device_id, "Move", p) = Ok
                               /\ Len(p) = 1
                                    => PointerStepResult(Outcome.self, call.device_id,
                                                         "Up", p) = Ok

\* A PointerUp accepted that leaves one of two pointers touching.
C32_Witness ==
    /\ Processed /\ PointerCall /\ CallAction.kind = "PointerUp"
    /\ result = Ok
    /\ Len(call.pointer_properties) = 2
    /\ HasTouching(call.device_id)
    /\ Cardinality(touching_pointer_ids_by_device[call.device_id]) = 1
    /\ CallPointerId \notin touching_pointer_ids_by_device[call.device_id]

\* C33: a Pointer-class HoverMove that passes verify_event and the button
\* step is accepted whatever T_d and H_d are, with no HoverEnter needed
\* before it: H_d is then present and holds the ids it held, none if it
\* was absent, and the id of the descriptor.
C33_HoverMove ==
    (Processing /\ PointerCall /\ CallAction.kind = "HoverMove"
       /\ PassedButtonStep(Outcome.result))
       => /\ Outcome.result = Ok
          /\ contains_key(Outcome.self.hovering_pointer_ids_by_device, call.device_id)
          /\ Outcome.self.hovering_pointer_ids_by_device[call.device_id]
                = (IF HasHovering(call.device_id)
                   THEN hovering_pointer_ids_by_device[call.device_id]
                   ELSE {})
                     \cup {call.pointer_properties[1].id}

\* A HoverMove accepted on a device whose pointer is the only one hovering.
C33_Witness ==
    /\ Processed /\ PointerCall /\ CallAction.kind = "HoverMove"
    /\ result = Ok
    /\ HasHovering(call.device_id)
    /\ hovering_pointer_ids_by_device[call.device_id]
          = {call.pointer_properties[1].id}

\* C34: in every reachable state the hovering set of a device holds at
\* most one pointer id, and a hover that has started, H_d present, is ended
\* by one HoverExit that the pointer step accepts.
C34_SingleHoveringPointer ==
    \A d \in Devices :
       HasHovering(d)
          => /\ Cardinality(hovering_pointer_ids_by_device[d]) <= 1
             /\ \E p \in PointerSeqs :
                   /\ Len(p) = 1
                   /\ PointerStepResult(Self, d, "HoverExit", p) = Ok

\* C35: in every reachable state B_d is the set of buttons for which a
\* Pointer-class ButtonPress of device d has been accepted and no
\* ButtonRelease of the button has been accepted since.
C35_ButtonsArePressedNotReleased ==
    \A d \in Devices : B(button_verifier_by_device, d) = held_buttons[d]

\* A ButtonRelease accepted while another pressed button stays held.
C35_Witness ==
    /\ Processed /\ PointerCall /\ CallAction.kind = "ButtonRelease"
    /\ result = Ok
    /\ B(button_verifier_by_device, call.device_id) # {}
    /\ held_buttons[call.device_id] # {}

\* C36: reset_device(d) leaves T_d and H_d absent, whatever they were; the
\* pointer step then accepts a Down and a HoverEnter of one pointer on d;
\* and T, H, B and P of every other device are as they were.
C36_ResetDevice ==
    (pc = "called" /\ call.op = "reset_device")
       => /\ ~ contains_key(Outcome.self.touching_pointer_ids_by_device, call.device_id)
          /\ ~ contains_key(Outcome.self.hovering_pointer_ids_by_device, call.device_id)
          /\ \A p \in PointerSeqs :
                Len(p) = 1
                   => /\ PointerStepResult(Outcome.self, call.device_id, "Down", p) = Ok
                      /\ PointerStepResult(Outcome.self, call.device_id, "HoverEnter", p) = Ok
          /\ \A d \in Devices \ {call.device_id} :
                DeviceState(Outcome.self, d) = DeviceState(Self, d)

\* A device reset in the middle of its gesture, right after its Down was
\* accepted, while the other device has pointers touching and hovering.
C36_Witness ==
    /\ pc = "returned" /\ call.op = "reset_device"
    /\ accepted_down[call.device_id].valid
    /\ ~ HasTouching(call.device_id)
    /\ ~ HasHovering(call.device_id)
    /\ \E d \in Devices \ {call.device_id} : HasTouching(d) /\ HasHovering(d)

\* C37: after every accepted Pointer-class PointerDown, T_d is the set of
\* the pointer ids of the descriptors of the event.
C37_PointerDownCarriesTouching ==
    [][(Processing /\ PointerCall /\ CallAction.kind = "PointerDown"
          /\ result' = Ok)
          => /\ contains_key(touching_pointer_ids_by_device', call.device_id)
             /\ touching_pointer_ids_by_device'[call.device_id] = CallIds]_vars

\* C38: whenever a Pointer-class Move, PointerUp or Cancel is accepted, the
\* pointer ids of its descriptors are pairwise distinct and their set is
\* T_d as it was before the event.
C38_AcceptedDescriptorsAreTouching ==
    [][(Processing /\ PointerCall
          /\ CallAction.kind \in {"Move", "PointerUp", "Cancel"}
          /\ result' = Ok)
          => /\ \A i, j \in 1..Len(call.pointer_properties) :
                   i # j => call.pointer_properties[i].id # call.pointer_properties[j].id
             /\ HasTouching(call.device_id)
             /\ CallIds = touching_pointer_ids_by_device[call.device_id]]_vars

PendingAndConfirmedDisjoint ==
    \A d \in Devices :
       P(button_verifier_by_device, d) \cap B(button_verifier_by_device, d) = {}

\* C39: in every reachable state, those left by rejected events too, P_d
\* and B_d of a device have no button in common, and a Pointer-class
\* ButtonPress that passes verify_event and presses a pending button is
\* never rejected as a duplicate press.
C39_PendingDisjointFromConfirmed ==
    /\ PendingAndConfirmedDisjoint
    /\ (Processing /\ PointerCall /\ CallAction.kind = "ButtonPress"
          /\ WellFormed
          /\ contains(P(button_verifier_by_device, call.device_id),
                      call.action_button))
       => Outcome.result # "Err:DuplicateButtonPress"

\* A rejected event that leaves a button pending while another is confirmed.
C39_Witness ==
    /\ Processed /\ PointerCall
    /\ IsErr(result)
    /\ P(button_verifier_by_device, call.device_id) # {}
    /\ B(button_verifier_by_device, call.device_id) # {}

====
